---- MODULE Spec2Model ----
(***************************************************************************)
(* A model of the Jira helper script (src/main.py): credential loading,    *)
(* authentication, board/project resolution, query building, paginated     *)
(* issue fetch and the three bulk mutators, run against a remote service   *)
(* that an external actor may edit while the script runs.                  *)
(*                                                                         *)
(* A Python string is a sequence of one-character strings, so that lower(),*)
(* split(), strip(), slicing, formatting and parsing are computed and not  *)
(* assumed.  None is a value that no string equals.                        *)
(*                                                                         *)
(* The service answers every call: a call that fails (network, permission) *)
(* is not modelled.  A search returns each matching issue once, in the     *)
(* service's order, which is the order of the keys 1, 2, ...               *)
(***************************************************************************)
EXTENDS Integers, Sequences, FiniteSets, TLC

(* ------------------------------ bounds --------------------------------- *)

\* Largest number of issues a query matches in the whole-program runs.
MaxIssues == 2

\* Largest number of issues a query matches in the pagination runs.
MaxTotal == 201

\* Number of program runs in a row (the second run re-reads the service).
MaxRuns == 2

\* Number of edits the external actor makes.
MaxExternal == 1

(* ------------------------------ strings -------------------------------- *)

None == << "<None>" >>

\* Python truthiness of an optional string: None and "" are false.
Truthy(x) == x # None /\ x # << >>

UpperChars ==
    << "A", "B", "C", "D", "E", "F", "G", "H", "I", "J", "K", "L", "M",
       "N", "O", "P", "Q", "R", "S", "T", "U", "V", "W", "X", "Y", "Z" >>

LowerChars ==
    << "a", "b", "c", "d", "e", "f", "g", "h", "i", "j", "k", "l", "m",
       "n", "o", "p", "q", "r", "s", "t", "u", "v", "w", "x", "y", "z" >>

\* The lower-case letter of each upper-case letter.
LowerOf ==
    [c \in {UpperChars[i] : i \in 1..Len(UpperChars)} |->
        LowerChars[CHOOSE i \in 1..Len(UpperChars) : UpperChars[i] = c]]

LowerChar(c) == IF c \in DOMAIN LowerOf THEN LowerOf[c] ELSE c

\* str.lower()
Lower(s) == [i \in 1..Len(s) |-> LowerChar(s[i])]

IsSpace(c) == c \in {" ", "\t", "\n", "\r"}

RECURSIVE LStrip(_)
LStrip(s) ==
    IF s # << >> /\ IsSpace(Head(s)) THEN LStrip(Tail(s)) ELSE s

RECURSIVE RStrip(_)
RStrip(s) ==
    IF s # << >> /\ IsSpace(s[Len(s)]) THEN RStrip(SubSeq(s, 1, Len(s) - 1)) ELSE s

\* str.strip()
Strip(s) == RStrip(LStrip(s))

\* str.split(sep) for a one-character separator: always at least one piece.
RECURSIVE Split(_, _)
Split(s, sep) ==
    IF \E i \in 1..Len(s) : s[i] = sep
    THEN LET i == CHOOSE j \in 1..Len(s) : s[j] = sep /\ \A k \in 1..(j - 1) : s[k] # sep
         IN  << SubSeq(s, 1, i - 1) >> \o Split(SubSeq(s, i + 1, Len(s)), sep)
    ELSE << s >>

\* sep.join(parts)
RECURSIVE Join(_, _)
Join(sep, parts) ==
    IF parts = << >> THEN << >>
    ELSE IF Len(parts) = 1 THEN parts[1]
    ELSE parts[1] \o sep \o Join(sep, Tail(parts))

\* x in list
Contains(list, x) == \E i \in 1..Len(list) : list[i] = x

(* String literals of the source. *)

s_and ==
    << " ", "A", "N", "D", " " >>

s_comma ==
    << ",", " " >>

s_quote ==
    << "\"" >>

s_status_eq ==
    << "s", "t", "a", "t", "u", "s", " ", "=", " ", "\"" >>

s_assignee_eq ==
    << "a", "s", "s", "i", "g", "n", "e", "e", " ", "=", " ", "\"" >>

s_reporter_eq ==
    << "r", "e", "p", "o", "r", "t", "e", "r", " ", "=", " ", "\"" >>

s_issuetype_eq ==
    << "i", "s", "s", "u", "e", "t", "y", "p", "e", " ", "=", " ", "\"" >>

s_priority_eq ==
    << "p", "r", "i", "o", "r", "i", "t", "y", " ", "=", " ", "\"" >>

s_labels_in ==
    << "l", "a", "b", "e", "l", "s", " ", "I", "N", " ", "(" >>

s_rparen ==
    << ")" >>

s_created_ge ==
    << "c", "r", "e", "a", "t", "e", "d", " ", ">", "=", " ", "\"" >>

s_created_lt ==
    << "\"", " ", "A", "N", "D", " ", "c", "r", "e", "a", "t", "e", "d", " ", "<", " ", "\"" >>

s_project_eq ==
    << "p", "r", "o", "j", "e", "c", "t", " ", "=", " " >>

s_order_by ==
    << " ", "O", "R", "D", "E", "R", " ", "B", "Y", " ", "R", "a", "n", "k", " ", "A", "S", "C" >>

s_informational ==
    << "i", "n", "f", "o", "r", "m", "a", "t", "i", "o", "n", "a", "l" >>

s_critical ==
    << "c", "r", "i", "t", "i", "c", "a", "l" >>

s_high ==
    << "h", "i", "g", "h" >>

s_medium ==
    << "m", "e", "d", "i", "u", "m" >>

s_low ==
    << "l", "o", "w" >>


(* Input values used by the runs. *)

v_in_progress ==
    << "I", "n", " ", "P", "r", "o", "g", "r", "e", "s", "s" >>

v_alice ==
    << "a", "l", "i", "c", "e" >>

v_bob ==
    << "b", "o", "b" >>

v_bug_type ==
    << "B", "u", "g" >>

v_high_filter ==
    << "H", "i", "g", "h" >>

v_two_labels ==
    << "u", "i", ",", " ", "a", "p", "i" >>

v_lone_comma ==
    << "," >>

v_date_mid ==
    << "1", "5", "-", "0", "3", "-", "2", "0", "2", "4" >>

v_date_year_end ==
    << "3", "1", "-", "1", "2", "-", "2", "0", "2", "3" >>

v_date_short ==
    << "1", "-", "3", "-", "2", "0", "2", "4" >>

v_date_iso ==
    << "2", "0", "2", "4", "-", "0", "3", "-", "1", "5" >>

v_date_no_such_day ==
    << "2", "9", "-", "0", "2", "-", "2", "0", "2", "3" >>

v_base_abc ==
    << "p", "r", "o", "j", "e", "c", "t", " ", "=", " ", "A", "B", "C", " ", "O", "R", "D", "E", "R", " ", "B", "Y", " ", "R", "a", "n", "k", " ", "A", "S", "C" >>

v_base_filter ==
    << "s", "p", "r", "i", "n", "t", " ", "i", "n", " ", "o", "p", "e", "n", "S", "p", "r", "i", "n", "t", "s", "(", ")" >>

v_example_jql ==
    << "p", "r", "o", "j", "e", "c", "t", " ", "=", " ", "A", "B", "C", " ", "O", "R", "D", "E", "R", " ", "B", "Y", " ", "R", "a", "n", "k", " ", "A", "S", "C", " ", "A", "N", "D", " ", "s", "t", "a", "t", "u", "s", " ", "=", " ", "\"", "I", "n", " ", "P", "r", "o", "g", "r", "e", "s", "s", "\"" >>

v_key_abc ==
    << "A", "B", "C" >>

v_board_sprint ==
    << "S", "p", "r", "i", "n", "t" >>

v_board_sprint_lc ==
    << "s", "p", "r", "i", "n", "t" >>

v_project_demo ==
    << "D", "e", "m", "o" >>

v_project_demo_uc ==
    << "D", "E", "M", "O" >>

v_project_nope ==
    << "N", "o", "p", "e" >>

v_triaged ==
    << "t", "r", "i", "a", "g", "e", "d" >>

v_bug ==
    << "b", "u", "g" >>

v_urgent ==
    << "u", "r", "g", "e", "n", "t" >>

v_done ==
    << "D", "o", "n", "e" >>

v_done_lc ==
    << "d", "o", "n", "e" >>

v_done_uc ==
    << "D", "O", "N", "E" >>

v_open ==
    << "O", "p", "e", "n" >>

v_start ==
    << "S", "t", "a", "r", "t" >>

v_critical_cap ==
    << "C", "r", "i", "t", "i", "c", "a", "l" >>

v_high_uc ==
    << "H", "I", "G", "H" >>

v_medium_lc ==
    << "m", "e", "d", "i", "u", "m" >>

v_low_cap ==
    << "L", "o", "w" >>

v_informational_cap ==
    << "I", "n", "f", "o", "r", "m", "a", "t", "i", "o", "n", "a", "l" >>

v_blocker ==
    << "B", "l", "o", "c", "k", "e", "r" >>

v_created_new_year ==
    << "2", "0", "2", "4", "-", "0", "1", "-", "0", "1", "T", "0", "9", ":", "3", "0", ":", "0", "0", ".", "0", "0", "0", "+", "0", "0", "0", "0" >>

v_created_december ==
    << "2", "0", "2", "3", "-", "1", "2", "-", "2", "0", "T", "2", "3", ":", "5", "9", ":", "5", "9", ".", "0", "0", "0", "+", "0", "0", "0", "0" >>

v_created_february ==
    << "2", "0", "2", "4", "-", "0", "2", "-", "1", "5", "T", "0", "0", ":", "0", "0", ":", "0", "0", ".", "0", "0", "0", "+", "0", "0", "0", "0" >>

v_due_example ==
    << "0", "8", "-", "0", "1", "-", "2", "0", "2", "4" >>

(* ------------------------------- dates --------------------------------- *)

DigitChars == << "0", "1", "2", "3", "4", "5", "6", "7", "8", "9" >>

IsDigit(c) == \E i \in 1..Len(DigitChars) : DigitChars[i] = c

DigitVal(c) == (CHOOSE i \in 1..Len(DigitChars) : DigitChars[i] = c) - 1

AllDigits(s) == s # << >> /\ \A i \in 1..Len(s) : IsDigit(s[i])

RECURSIVE ToInt(_)
ToInt(s) ==
    IF s = << >> THEN 0
    ELSE ToInt(SubSeq(s, 1, Len(s) - 1)) * 10 + DigitVal(s[Len(s)])

\* A number as w decimal digits, zero padded (%Y with w = 4, %m and %d with w = 2).
RECURSIVE ZeroPad(_, _)
ZeroPad(n, w) ==
    IF w = 0 THEN << >>
    ELSE ZeroPad(n \div 10, w - 1) \o << DigitChars[(n % 10) + 1] >>

IsLeap(y) == y % 4 = 0 /\ (y % 100 # 0 \/ y % 400 = 0)

DaysInMonth(y, m) ==
    IF m = 2 THEN (IF IsLeap(y) THEN 29 ELSE 28)
    ELSE IF m \in {4, 6, 9, 11} THEN 30 ELSE 31

DaysBeforeYear(y) ==
    (y - 1) * 365 + ((y - 1) \div 4) - ((y - 1) \div 100) + ((y - 1) \div 400)

RECURSIVE DaysBeforeMonth(_, _)
DaysBeforeMonth(y, m) ==
    IF m = 1 THEN 0 ELSE DaysBeforeMonth(y, m - 1) + DaysInMonth(y, m - 1)

\* date.toordinal(): day 1 is 0001-01-01.
ToOrdinal(dt) == DaysBeforeYear(dt.y) + DaysBeforeMonth(dt.y, dt.m) + dt.d

\* date.fromordinal()
FromOrdinal(n) ==
    LET y == CHOOSE yy \in (n \div 366)..((n \div 365) + 1) :
                 DaysBeforeYear(yy) < n /\ n <= DaysBeforeYear(yy + 1)
        r == n - DaysBeforeYear(y)
        m == CHOOSE mm \in 1..12 :
                 DaysBeforeMonth(y, mm) < r /\ r <= DaysBeforeMonth(y, mm) + DaysInMonth(y, mm)
    IN  [y |-> y, m |-> m, d |-> r - DaysBeforeMonth(y, m)]

\* datetime + timedelta(days=n): the arithmetic goes through the day ordinal.
AddDays(dt, n) == FromOrdinal(ToOrdinal(dt) + n)

\* What strptime accepts for the day, month and year fields and the date they
\* must form: %d and %m take one or two digits, %Y exactly four.
FieldsOk(ds, ms, ys) ==
    /\ AllDigits(ds) /\ Len(ds) <= 2
    /\ AllDigits(ms) /\ Len(ms) <= 2
    /\ AllDigits(ys) /\ Len(ys) = 4
    /\ ToInt(ys) >= 1
    /\ ToInt(ms) \in 1..12
    /\ ToInt(ds) \in 1..DaysInMonth(ToInt(ys), ToInt(ms))

\* datetime.strptime(s, "%d-%m-%Y") raises ValueError unless this holds.
StrptimeDMYOk(s) ==
    LET p == Split(s, "-")
    IN  Len(p) = 3 /\ FieldsOk(p[1], p[2], p[3])

StrptimeDMY(s) ==
    LET p == Split(s, "-")
    IN  [y |-> ToInt(p[3]), m |-> ToInt(p[2]), d |-> ToInt(p[1])]

\* datetime.strptime(s, "%Y-%m-%d")
StrptimeYMDOk(s) ==
    LET p == Split(s, "-")
    IN  Len(p) = 3 /\ FieldsOk(p[3], p[2], p[1])

StrptimeYMD(s) ==
    LET p == Split(s, "-")
    IN  [y |-> ToInt(p[1]), m |-> ToInt(p[2]), d |-> ToInt(p[3])]

\* strftime("%Y-%m-%d")
StrftimeYMD(dt) ==
    ZeroPad(dt.y, 4) \o << "-" >> \o ZeroPad(dt.m, 2) \o << "-" >> \o ZeroPad(dt.d, 2)

\* strftime("%d-%m-%Y")
StrftimeDMY(dt) ==
    ZeroPad(dt.d, 2) \o << "-" >> \o ZeroPad(dt.m, 2) \o << "-" >> \o ZeroPad(dt.y, 4)

(* --------------------------- query builder ----------------------------- *)

\* The labels clause: split on commas, strip each piece, quote, join with ", ".
LabelsClause(labels) ==
    LET parts == Split(labels, ",")
        label_list == Join(s_comma,
                           [i \in 1..Len(parts) |-> s_quote \o Strip(parts[i]) \o s_quote])
    IN  s_labels_in \o label_list \o s_rparen

\* The created-on clause: the half-open interval [day, day + 1).
CreatedClause(created_on) ==
    LET date_obj == StrptimeDMY(created_on)
        date_str == StrftimeYMD(date_obj)
        next_day == StrftimeYMD(AddDays(date_obj, 1))
    IN  s_created_ge \o date_str \o s_created_lt \o next_day \o s_quote

\* build_jql raises (ValueError from strptime) exactly in this case.
build_jql_raises(created_on) == Truthy(created_on) /\ ~StrptimeDMYOk(created_on)

\* build_jql with the reporter clause emitted before the assignee clause.
build_jql_swapped(base_jql, status, assignee, reporter, issue_type, priority, labels, created_on) ==
    LET filters ==
            (IF Truthy(status) THEN << s_status_eq \o status \o s_quote >> ELSE << >>)
         \o (IF Truthy(reporter) THEN << s_reporter_eq \o reporter \o s_quote >> ELSE << >>)
         \o (IF Truthy(assignee) THEN << s_assignee_eq \o assignee \o s_quote >> ELSE << >>)
         \o (IF Truthy(issue_type) THEN << s_issuetype_eq \o issue_type \o s_quote >> ELSE << >>)
         \o (IF Truthy(priority) THEN << s_priority_eq \o priority \o s_quote >> ELSE << >>)
         \o (IF Truthy(labels) THEN << LabelsClause(labels) >> ELSE << >>)
         \o (IF Truthy(created_on) THEN << CreatedClause(created_on) >> ELSE << >>)
    IN  IF filters # << >> THEN base_jql \o s_and \o Join(s_and, filters) ELSE base_jql

build_jql(base_jql, status, assignee, reporter, issue_type, priority, labels, created_on) ==
    LET filters ==
            (IF Truthy(status) THEN << s_status_eq \o status \o s_quote >> ELSE << >>)
         \o (IF Truthy(assignee) THEN << s_assignee_eq \o assignee \o s_quote >> ELSE << >>)
         \o (IF Truthy(reporter) THEN << s_reporter_eq \o reporter \o s_quote >> ELSE << >>)
         \o (IF Truthy(issue_type) THEN << s_issuetype_eq \o issue_type \o s_quote >> ELSE << >>)
         \o (IF Truthy(priority) THEN << s_priority_eq \o priority \o s_quote >> ELSE << >>)
         \o (IF Truthy(labels) THEN << LabelsClause(labels) >> ELSE << >>)
         \o (IF Truthy(created_on) THEN << CreatedClause(created_on) >> ELSE << >>)
    IN  IF filters # << >> THEN base_jql \o s_and \o Join(s_and, filters) ELSE base_jql

(* --------------------------- the environment --------------------------- *)

\* Page size of the issue search.
max_results == 100

\* What JiraCredentials.json may hold: no file, a file that is not JSON, a JSON
\* object lacking a field or holding an empty one, a complete object.
CredentialFiles ==
    { [exists |-> FALSE, parses |-> FALSE, email |-> None, api_token |-> None, jira_url |-> None],
      [exists |-> TRUE, parses |-> FALSE, email |-> None, api_token |-> None, jira_url |-> None],
      [exists |-> TRUE, parses |-> TRUE, email |-> v_alice, api_token |-> None, jira_url |-> v_bob],
      [exists |-> TRUE, parses |-> TRUE, email |-> v_alice, api_token |-> v_bug, jira_url |-> << >>],
      [exists |-> TRUE, parses |-> TRUE, email |-> v_alice, api_token |-> v_bug, jira_url |-> v_bob] }

\* The boards and projects of the service, and each board's saved filter query.
Boards ==
    << [id |-> 7, name |-> v_open, jql |-> v_base_filter],
       [id |-> 42, name |-> v_board_sprint, jql |-> v_base_abc] >>

Projects == << [key |-> v_key_abc, name |-> v_project_demo] >>

\* The issues of the service in the whole-program runs are drawn from these:
\* between them they hold every label case (the label absent, with and without
\* other labels, and present), every status case (at the target in another
\* letter case, away from it with a matching transition and without one) and
\* priorities in and out of the offset table.
IssueProfiles ==
    { [duedate |-> None, labels |-> << v_bug >>, status |-> v_open,
       priority |-> v_critical_cap, created |-> v_created_new_year,
       transitions |-> << [id |-> 11, name |-> v_start, to |-> v_in_progress],
                          [id |-> 21, name |-> v_done_uc, to |-> v_done] >>],
      [duedate |-> None, labels |-> << v_triaged >>, status |-> v_done_lc,
       priority |-> None, created |-> v_created_december,
       transitions |-> << [id |-> 31, name |-> v_done, to |-> v_done] >>],
      [duedate |-> None, labels |-> << >>, status |-> v_in_progress,
       priority |-> v_blocker, created |-> v_created_february,
       transitions |-> << [id |-> 11, name |-> v_start, to |-> v_in_progress] >>] }

\* The issues of the due-date runs: every priority class in several letter
\* cases, created on days whose due dates cross a month, a year and a leap day.
DueProfiles ==
    { [duedate |-> None, labels |-> << >>, status |-> v_open, priority |-> p,
       created |-> c, transitions |-> << >>] :
      p \in {None, s_critical, v_critical_cap, v_high_uc, v_medium_lc, v_low_cap,
             v_informational_cap, v_blocker, << >>},
      c \in {v_created_new_year, v_created_december, v_created_february} }

NoFilters ==
    [status |-> None, assignee |-> None, reporter |-> None, issue_type |-> None,
     priority |-> None, labels |-> None]

\* The command lines of the whole-program runs: board and project names that
\* resolve and that do not, every combination of the mutators, with and without
\* --dry-run, and a created-on date that is absent or malformed.
Sources ==
    { << None, None >>, << v_board_sprint, None >>, << v_board_sprint_lc, None >>,
      << None, v_project_demo_uc >>, << None, v_project_nope >>,
      << v_board_sprint, v_project_nope >> }

ArgsMain ==
    { [board_name |-> s[1], project |-> s[2], dry_run |-> d, add_label |-> l,
       move_to |-> t, set_due_date |-> u, created_on |-> c, filters |-> NoFilters] :
      s \in Sources, d \in BOOLEAN, l \in {None, v_triaged}, t \in {None, v_done},
      u \in BOOLEAN, c \in {None, v_date_iso} }

\* The command lines of the query-builder runs: every filter absent, empty or set.
Scalar(v) == {None, << >>, v}

ArgsJql ==
    { [board_name |-> s[1], project |-> s[2], dry_run |-> FALSE, add_label |-> None,
       move_to |-> None, set_due_date |-> FALSE, created_on |-> c,
       filters |-> [status |-> f1, assignee |-> f2, reporter |-> f3, issue_type |-> f4,
                    priority |-> f5, labels |-> f6]] :
      s \in { << v_board_sprint, None >>, << None, v_project_demo >> },
      c \in {None, << >>, v_date_mid, v_date_year_end, v_date_short, v_date_iso, v_date_no_such_day},
      f1 \in Scalar(v_in_progress), f2 \in Scalar(v_alice), f3 \in Scalar(v_bob),
      f4 \in Scalar(v_bug_type), f5 \in Scalar(v_high_filter),
      f6 \in {None, << >>, v_bug, v_two_labels, v_lone_comma} }

\* The command lines of the due-date runs.
ArgsDue ==
    { [board_name |-> None, project |-> v_project_demo, dry_run |-> FALSE, add_label |-> None,
       move_to |-> None, set_due_date |-> u, created_on |-> None, filters |-> NoFilters] :
      u \in BOOLEAN }

\* The command line of the pagination runs.
ArgsFetch ==
    { [board_name |-> None, project |-> v_project_demo, dry_run |-> FALSE, add_label |-> None,
       move_to |-> None, set_due_date |-> FALSE, created_on |-> None, filters |-> f] :
      f \in { NoFilters, [NoFilters EXCEPT !.status = v_in_progress] } }

(* ------------------------------- state --------------------------------- *)

VARIABLES
    pc,           \* where the script is
    run,          \* which run of the script this is
    args,         \* the parsed command line
    remote,       \* the service's issues: remote[k] is the issue with key k
    credentials,  \* EMAIL, API_TOKEN, JIRA_URL, or None
    exit_code,    \* the exit status, -1 while the script runs
    base_jql,
    final_jql,
    issues,       \* the fetched issues (all_issues)
    start_at,
    idx,          \* the position of a mutator's loop in issues
    calls,        \* the remote calls of this run, in order
    out,          \* the lines printed by this run, in order
    edits,        \* the number of external edits so far
    updated,      \* keys whose labels this script pushed last, untouched since
    fresh,        \* keys fetched in this run after an earlier run's label update
    pending       \* keys given a label by the external actor between this
                  \* run's fetch of them and its label update

vars ==
    << pc, run, args, remote, credentials, exit_code, base_jql, final_jql, issues,
       start_at, idx, calls, out, edits, updated, fresh, pending >>

\* The script with --dry-run having no effect.
dry_run_ignored == FALSE

dry_run == args.dry_run
BOARD_NAME == args.board_name
PROJECT_NAME == args.project
LABEL_TO_ADD == args.add_label
TARGET_STATUS == args.move_to

Call(op, key, field, value, n) ==
    [op |-> op, key |-> key, field |-> field, value |-> value, n |-> n]

Msg(msg, key, text) == [msg |-> msg, key |-> key, text |-> text]

\* The remote calls that change an issue.
Mutating == {"update", "transition_issue"}

Start ==
    /\ pc = "load_credentials"
    /\ credentials = None
    /\ exit_code = -1
    /\ base_jql = None
    /\ final_jql = None
    /\ issues = << >>
    /\ start_at = 0
    /\ idx = 1
    /\ calls = << >>
    /\ out = << >>
    /\ fresh = {}
    /\ pending = {}

RemoteOf(n) == [1..n -> IssueProfiles]

Init ==
    /\ Start
    /\ run = 1
    /\ edits = 0
    /\ updated = {}
    /\ args \in ArgsMain
    /\ \E n \in 0..MaxIssues : remote \in RemoteOf(n)

InitJql ==
    /\ Start
    /\ run = 1
    /\ edits = 0
    /\ updated = {}
    /\ args \in ArgsJql
    /\ remote = << >>

InitDue ==
    /\ Start
    /\ run = 1
    /\ edits = 0
    /\ updated = {}
    /\ args \in ArgsDue
    /\ \E n \in 0..MaxIssues : remote \in [1..n -> DueProfiles]

InitFetch ==
    /\ Start
    /\ run = 1
    /\ edits = 0
    /\ updated = {}
    /\ args \in ArgsFetch
    /\ \E n \in 0..MaxTotal :
         remote = [k \in 1..n |->
                     CHOOSE p \in IssueProfiles : p.priority = v_critical_cap]

(* ------------------------- credentials and login ----------------------- *)

\* load_credentials returns (rather than exits) exactly for such a file.
CredentialsOk(f) ==
    f.exists /\ f.parses /\ Truthy(f.email) /\ Truthy(f.api_token) /\ Truthy(f.jira_url)

\* exit(code) after printing the lines of o.
Exit(code, o) ==
    /\ pc' = "exit"
    /\ exit_code' = code
    /\ out' = o

\* Lines 16-34: read the credentials file, before anything else.
load_credentials ==
    /\ pc = "load_credentials"
    /\ \E f \in CredentialFiles :
         IF ~f.exists
         THEN /\ Exit(1, Append(out, Msg("Error: Credentials file not found.", 0, None)))
              /\ UNCHANGED credentials
         ELSE IF ~CredentialsOk(f)
         THEN /\ Exit(1, Append(out, Msg("Failed to load credentials", 0, None)))
              /\ UNCHANGED credentials
         ELSE /\ credentials' = << f.email, f.api_token, f.jira_url >>
              /\ out' = Append(out, Msg("Credentials fetched successfully.", 0, None))
              /\ pc' = "authenticate"
              /\ UNCHANGED exit_code
    /\ UNCHANGED << run, args, remote, base_jql, final_jql, issues, start_at, idx,
                    calls, edits, updated, fresh, pending >>

\* Lines 50-63: parse the command line, then open the session; the service
\* accepts the credentials or rejects them.
Authenticate ==
    /\ pc = "authenticate"
    /\ calls' = Append(calls, Call("session", 0, "", credentials, 0))
    /\ \E accepted \in BOOLEAN :
         IF accepted
         THEN /\ out' = Append(out, Msg("Jira authentication successful.", 0, None))
              /\ pc' = "main"
              /\ UNCHANGED exit_code
         ELSE Exit(1, Append(out, Msg("Jira authentication failed", 0, None)))
    /\ UNCHANGED << run, args, remote, credentials, base_jql, final_jql, issues,
                    start_at, idx, edits, updated, fresh, pending >>

(* ------------------------------ resolution ----------------------------- *)

\* get_board_id_by_name: the id of the first board of that exact name; 0 stands
\* for None (the callers only test the result for truth).
get_board_id_by_name(name) ==
    LET Named(b) == b.name = name
        hits == SelectSeq(Boards, Named)
    IN  IF hits # << >> THEN Head(hits).id ELSE 0

\* The board-listing calls of get_board_id_by_name: the listing is read from
\* start_at = 0; a search that finds nothing reads one more, empty, page.
BoardCalls(name) ==
    IF get_board_id_by_name(name) # 0
    THEN << Call("boards", 0, "", << 0 >>, Len(Boards)) >>
    ELSE << Call("boards", 0, "", << 0 >>, Len(Boards)),
            Call("boards", 0, "", << Len(Boards) >>, 0) >>

\* get_project_key_by_name: the key of the first project of that name, letter
\* case ignored, or None.
get_project_key_by_name(name) ==
    LET Named(p) == Lower(p.name) = Lower(name)
        hits == SelectSeq(Projects, Named)
    IN  IF hits # << >> THEN Head(hits).key ELSE None

\* get_jql_from_board: the query of the board's saved filter.
get_jql_from_board(board_id) ==
    LET HasId(b) == b.id = board_id
    IN  Head(SelectSeq(Boards, HasId)).jql

\* Lines 198-215: a dry run checks that the board or project exists and exits.
DryRun ==
    /\ pc = "main"
    /\ dry_run
    /\ IF Truthy(BOARD_NAME)
       THEN LET o == Append(out, Msg("Looking for board", 0, BOARD_NAME))
            IN  /\ calls' = calls \o BoardCalls(BOARD_NAME)
                /\ IF get_board_id_by_name(BOARD_NAME) # 0
                   THEN Exit(0, Append(o, Msg("Board exists.", 0, BOARD_NAME)))
                   ELSE Exit(1, Append(o, Msg("Board not found.", 0, BOARD_NAME)))
       ELSE IF Truthy(PROJECT_NAME)
       THEN LET o == Append(out, Msg("Looking for project", 0, PROJECT_NAME))
            IN  /\ calls' = Append(calls, Call("projects", 0, "", << >>, Len(Projects)))
                /\ IF Truthy(get_project_key_by_name(PROJECT_NAME))
                   THEN Exit(0, Append(o, Msg("Project exists.", 0, PROJECT_NAME)))
                   ELSE Exit(1, Append(o, Msg("Project not found.", 0, PROJECT_NAME)))
       ELSE /\ Exit(0, out)
            /\ UNCHANGED calls
    /\ UNCHANGED << run, args, remote, credentials, base_jql, final_jql, issues,
                    start_at, idx, edits, updated, fresh, pending >>

\* Lines 217-234: a real run resolves the board, else the project, to a base query.
Resolve ==
    /\ pc = "main"
    /\ ~dry_run
    /\ IF ~Truthy(BOARD_NAME) /\ ~Truthy(PROJECT_NAME)
       THEN /\ Exit(1, Append(out, Msg("Either --board-name or --project must be provided.", 0, None)))
            /\ UNCHANGED << calls, base_jql >>
       ELSE IF Truthy(BOARD_NAME)
       THEN LET o == Append(out, Msg("Looking for board", 0, BOARD_NAME))
                board_id == get_board_id_by_name(BOARD_NAME)
            IN  IF board_id = 0
                THEN /\ calls' = calls \o BoardCalls(BOARD_NAME)
                     /\ Exit(1, Append(o, Msg("Board not found.", 0, BOARD_NAME)))
                     /\ UNCHANGED base_jql
                ELSE /\ calls' = calls \o BoardCalls(BOARD_NAME)
                                 \o << Call("board_configuration", board_id, "", << >>, 0),
                                       Call("filter", board_id, "", << >>, 0) >>
                     /\ base_jql' = get_jql_from_board(board_id)
                     /\ out' = o
                     /\ pc' = "build_jql"
                     /\ UNCHANGED exit_code
       ELSE LET o == Append(out, Msg("Looking for project", 0, PROJECT_NAME))
                project_key == get_project_key_by_name(PROJECT_NAME)
            IN  /\ calls' = Append(calls, Call("projects", 0, "", << >>, Len(Projects)))
                /\ IF ~Truthy(project_key)
                   THEN /\ Exit(1, Append(o, Msg("Project not found.", 0, PROJECT_NAME)))
                        /\ UNCHANGED base_jql
                   ELSE /\ base_jql' = s_project_eq \o project_key \o s_order_by
                        /\ out' = o
                        /\ pc' = "build_jql"
                        /\ UNCHANGED exit_code
    /\ UNCHANGED << run, args, remote, credentials, final_jql, issues, start_at, idx,
                    edits, updated, fresh, pending >>

\* Lines 236-237: compose the query; a created-on date that strptime rejects is
\* an uncaught ValueError, which ends the script with status 1.
BuildJql ==
    /\ pc = "build_jql"
    /\ IF build_jql_raises(args.created_on)
       THEN /\ Exit(1, Append(out, Msg("Traceback: ValueError", 0, args.created_on)))
            /\ UNCHANGED final_jql
       ELSE LET jql == build_jql(base_jql, args.filters.status, args.filters.assignee,
                                 args.filters.reporter, args.filters.issue_type,
                                 args.filters.priority, args.filters.labels, args.created_on)
            IN  /\ final_jql' = jql
                /\ out' = Append(out, Msg("JQL", 0, jql))
                /\ pc' = "get_all_issues"
                /\ UNCHANGED exit_code
    /\ UNCHANGED << run, args, remote, credentials, base_jql, issues, start_at, idx,
                    calls, edits, updated, fresh, pending >>

(* -------------------------------- fetch -------------------------------- *)

Min(a, b) == IF a <= b THEN a ELSE b

\* An issue as a search returns it: the fields as they are at that moment.
Snapshot(k) ==
    [key |-> k, labels |-> remote[k].labels, status |-> remote[k].status,
     priority |-> remote[k].priority, created |-> remote[k].created]

\* jira.search_issues(jql, startAt, maxResults): the service answers with the
\* next maxResults matches from startAt on, or with all that remain if fewer.
search_issues(startAt, maxResults) ==
    LET hi == Min(startAt + maxResults, Len(remote))
    IN  IF hi <= startAt THEN << >>
        ELSE [i \in 1..(hi - startAt) |-> Snapshot(startAt + i)]

\* The loop test with <= for <.
ShortPageOrFull(page) == Len(page) <= max_results

\* Line 129: the page is the last one.
ShortPage(page) == Len(page) < max_results

\* The script after each mutator, and after the fetch: the next requested
\* mutator with its heading printed, or the end of the script.
AfterDue(o) ==
    [pc |-> "exit", exit_code |-> 0, out |-> Append(o, Msg("Script completed.", 0, None))]

AfterMove(o) ==
    IF args.set_due_date
    THEN [pc |-> "set_due_dates_based_on_severity", exit_code |-> -1,
          out |-> Append(o, Msg("Setting due dates based on severity...", 0, None))]
    ELSE AfterDue(o)

AfterLabel(o) ==
    IF Truthy(TARGET_STATUS)
    THEN [pc |-> "move_issues_to_status", exit_code |-> -1,
          out |-> Append(o, Msg("Moving issues to status", 0, TARGET_STATUS))]
    ELSE AfterMove(o)

AfterFetch(o) ==
    IF Truthy(LABEL_TO_ADD)
    THEN [pc |-> "add_label_to_issues", exit_code |-> -1,
          out |-> Append(o, Msg("Adding label", 0, LABEL_TO_ADD))]
    ELSE AfterLabel(o)

\* One iteration of a mutator's loop ends: on to the next issue, or past the loop.
Continue(o, after) ==
    IF idx < Len(issues)
    THEN /\ idx' = idx + 1
         /\ out' = o
         /\ UNCHANGED << pc, exit_code >>
    ELSE /\ idx' = 1
         /\ pc' = after.pc
         /\ exit_code' = after.exit_code
         /\ out' = after.out

\* Lines 119-133 and 239-243: one page of get_all_issues; after the last page,
\* the count is printed and an empty result ends the script with status 0.
get_all_issues ==
    /\ pc = "get_all_issues"
    /\ LET page == search_issues(start_at, max_results)
           all_issues == issues \o page
           o == Append(out, Msg("Total issues matching filters", Len(all_issues), None))
           next == IF Len(all_issues) = 0
                   THEN [pc |-> "exit", exit_code |-> 0,
                         out |-> Append(o, Msg("No issues found matching the filters. Script completed.", 0, None))]
                   ELSE AfterFetch(o)
       IN  /\ calls' = Append(calls, Call("search_issues", 0, "", << start_at >>, Len(page)))
           /\ issues' = all_issues
           /\ fresh' = fresh \cup {page[i].key : i \in {j \in 1..Len(page) : page[j].key \in updated}}
           /\ IF page = << >> \/ ShortPage(page)
              THEN /\ pc' = next.pc
                   /\ exit_code' = next.exit_code
                   /\ out' = next.out
                   /\ UNCHANGED start_at
              ELSE /\ start_at' = start_at + max_results
                   /\ UNCHANGED << pc, exit_code, out >>
    /\ UNCHANGED << run, args, remote, credentials, base_jql, final_jql, idx, edits,
                    updated, pending >>

(* ------------------------------ mutators ------------------------------- *)

HasUpdate(log, k, field) ==
    \E i \in 1..Len(log) : log[i].op = "update" /\ log[i].key = k /\ log[i].field = field

\* The membership test left out.
LabelAlwaysMissing(labels, label) == TRUE

\* Line 139: label not in labels
LabelMissing(labels, label) == ~Contains(labels, label)

\* The update carrying the new label alone.
OnlyNewLabel(labels, label) == << label >>

\* Line 142: updated = labels + [label]
UpdatedLabels(labels, label) == labels \o << label >>

\* Lines 136-146: one iteration of add_label_to_issues.
add_label_to_issues ==
    /\ pc = "add_label_to_issues"
    /\ LET issue == issues[idx]
           key == issue.key
           labels == issue.labels
           label == LABEL_TO_ADD
       IN  IF LabelMissing(labels, label)
           THEN IF dry_run
                THEN /\ Continue(Append(out, Msg("Would update with label", key, label)),
                                 AfterLabel(Append(out, Msg("Would update with label", key, label))))
                     /\ UNCHANGED << calls, remote, updated >>
                ELSE LET new == UpdatedLabels(labels, label)
                         o == out \o << Msg("Updating with label", key, label),
                                        Msg("Updated with label", key, label) >>
                     IN  /\ calls' = calls \o << Call("issue", key, "", << >>, 0),
                                                 Call("update", key, "labels", new, 0) >>
                         /\ remote' = [remote EXCEPT ![key].labels = new]
                         /\ updated' = updated \cup {key}
                         /\ Continue(o, AfterLabel(o))
           ELSE /\ Continue(Append(out, Msg("already has label", key, label)),
                            AfterLabel(Append(out, Msg("already has label", key, label))))
                /\ UNCHANGED << calls, remote, updated >>
    /\ UNCHANGED << run, args, credentials, base_jql, final_jql, issues, start_at,
                    edits, fresh, pending >>

\* The comparison without lower().
SameStatusExact(current_status, target_status) == current_status = target_status

\* Line 153: the issue is at the target status, letter case ignored.
SameStatus(current_status, target_status) == Lower(current_status) = Lower(target_status)

\* The first transition taken whatever its name.
FirstTransition(transitions, target_status) ==
    IF transitions = << >> THEN << >> ELSE << Head(transitions) >>

\* Line 158: the first transition named like the target, letter case ignored:
\* a sequence holding it, or the empty sequence for None.
Matched(transitions, target_status) ==
    LET Named(t) == Lower(t.name) = Lower(target_status)
        hits == SelectSeq(transitions, Named)
    IN  IF hits = << >> THEN << >> ELSE << Head(hits) >>

\* Lines 149-167: one iteration of move_issues_to_status.
move_issues_to_status ==
    /\ pc = "move_issues_to_status"
    /\ LET issue == issues[idx]
           key == issue.key
           current_status == issue.status
           transitions == remote[key].transitions
           matched == Matched(transitions, TARGET_STATUS)
           listing == Call("transitions", key, "", << >>, Len(transitions))
       IN  IF SameStatus(current_status, TARGET_STATUS)
           THEN /\ Continue(Append(out, Msg("already in status", key, TARGET_STATUS)),
                            AfterMove(Append(out, Msg("already in status", key, TARGET_STATUS))))
                /\ UNCHANGED << calls, remote >>
           ELSE IF matched = << >>
           THEN /\ calls' = Append(calls, listing)
                /\ Continue(Append(out, Msg("No valid transition found", key, TARGET_STATUS)),
                            AfterMove(Append(out, Msg("No valid transition found", key, TARGET_STATUS))))
                /\ UNCHANGED remote
           ELSE IF dry_run
           THEN /\ calls' = Append(calls, listing)
                /\ Continue(Append(out, Msg("Would move", key, TARGET_STATUS)),
                            AfterMove(Append(out, Msg("Would move", key, TARGET_STATUS))))
                /\ UNCHANGED remote
           ELSE LET o == out \o << Msg("Moving", key, TARGET_STATUS),
                                   Msg("Moved", key, TARGET_STATUS) >>
                IN  /\ calls' = calls \o << listing,
                                            Call("transition_issue", key, "", << matched[1].id >>, 0) >>
                    /\ remote' = [remote EXCEPT ![key].status = matched[1].to]
                    /\ Continue(o, AfterMove(o))
    /\ UNCHANGED << run, args, credentials, base_jql, final_jql, issues, start_at,
                    edits, updated, fresh, pending >>

\* The priority name without lower().
SeverityAsWritten(priority) == priority

\* Line 173: the priority name in lower case, or None.
Severity(priority) == IF priority # None THEN Lower(priority) ELSE None

\* Lines 178-186: the offset in days; 0 stands for None (tested only for truth).
days_to_add(severity) ==
    IF severity = s_critical THEN 7
    ELSE IF severity = s_high THEN 15
    ELSE IF severity = s_medium THEN 30
    ELSE IF severity = s_low THEN 90
    ELSE 0

\* Lines 170-195: one iteration of set_due_dates_based_on_severity.
set_due_dates_based_on_severity ==
    /\ pc = "set_due_dates_based_on_severity"
    /\ LET issue == issues[idx]
           key == issue.key
           severity == Severity(issue.priority)
       IN  IF severity \in {s_informational, None} \/ days_to_add(severity) = 0
           THEN /\ Continue(out, AfterDue(out))
                /\ UNCHANGED << calls, remote >>
           ELSE LET created_date == StrptimeYMD(SubSeq(issue.created, 1, Min(10, Len(issue.created))))
                    due_date == AddDays(created_date, days_to_add(severity))
                    due_str == StrftimeDMY(due_date)
                    o == Append(out, Msg("Setting due date", key, due_str))
                IN  IF dry_run
                    THEN /\ Continue(o, AfterDue(o))
                         /\ UNCHANGED << calls, remote >>
                    ELSE /\ calls' = calls \o << Call("issue", key, "", << >>, 0),
                                                Call("update", key, "duedate", StrftimeYMD(due_date), 0) >>
                         /\ remote' = [remote EXCEPT ![key].duedate = StrftimeYMD(due_date)]
                         /\ Continue(Append(o, Msg("Due date set", key, None)),
                                     AfterDue(Append(o, Msg("Due date set", key, None))))
    /\ UNCHANGED << run, args, credentials, base_jql, final_jql, issues, start_at,
                    edits, updated, fresh, pending >>

(* ----------------------- the world around the script ------------------- *)

\* Another user of the service edits an issue's labels: adds a label of their
\* own, or takes away the label the script adds.  Edits made before the script
\* has fetched anything are not steps: the service as they leave it is one of
\* the initial states (the first run) or is reached by the same edit made
\* before the restart (a later run).
ExternalEdit ==
    /\ edits < MaxExternal
    /\ issues # << >>
    /\ \E k \in DOMAIN remote, kind \in {"add", "remove"} :
         LET old == remote[k].labels
             Kept(l) == l # v_triaged
             new == IF kind = "add" THEN old \o << v_urgent >> ELSE SelectSeq(old, Kept)
         IN  /\ new # old
             /\ ~Contains(old, v_urgent)
             /\ remote' = [remote EXCEPT ![k].labels = new]
             /\ updated' = updated \ {k}
             /\ pending' = IF /\ kind = "add"
                              /\ \E i \in 1..Len(issues) : issues[i].key = k
                              /\ ~HasUpdate(calls, k, "labels")
                           THEN pending \cup {k} ELSE pending
    /\ edits' = edits + 1
    /\ UNCHANGED << pc, run, args, credentials, exit_code, base_jql, final_jql, issues,
                    start_at, idx, calls, out, fresh >>

\* The script is run again after a run that completed, with the same command
\* line, against the service as that run and the external actor left it.
Restart ==
    /\ pc = "exit"
    /\ exit_code = 0
    /\ run < MaxRuns
    /\ run' = run + 1
    /\ pc' = "load_credentials"
    /\ credentials' = None
    /\ exit_code' = -1
    /\ base_jql' = None
    /\ final_jql' = None
    /\ issues' = << >>
    /\ start_at' = 0
    /\ idx' = 1
    /\ calls' = << >>
    /\ out' = << >>
    /\ fresh' = {}
    /\ pending' = {}
    /\ UNCHANGED << args, remote, edits, updated >>

(* --------------------------- specifications ---------------------------- *)

Next ==
    \/ load_credentials
    \/ Authenticate
    \/ DryRun
    \/ Resolve
    \/ BuildJql
    \/ get_all_issues
    \/ add_label_to_issues
    \/ move_issues_to_status
    \/ set_due_dates_based_on_severity
    \/ ExternalEdit
    \/ Restart

Spec == Init /\ [][Next]_vars

\* The query builder over every combination of filters.
NextJql == load_credentials \/ Authenticate \/ Resolve \/ BuildJql

SpecJql == InitJql /\ [][NextJql]_vars

\* The due-date mutator over every priority class and creation day.
NextDue ==
    load_credentials \/ Authenticate \/ Resolve \/ BuildJql \/ get_all_issues \/ set_due_dates_based_on_severity

SpecDue == InitDue /\ [][NextDue]_vars

\* The fetch over result sets of many pages; the script always takes its next
\* step, and the service answers each call.
NextFetch == load_credentials \/ Authenticate \/ Resolve \/ BuildJql \/ get_all_issues

SpecFetch == InitFetch /\ [][NextFetch]_vars /\ WF_vars(NextFetch)

(* ------------------------------- claims -------------------------------- *)

HasMsg(msg, k) == \E i \in 1..Len(out) : out[i].msg = msg /\ out[i].key = k

HasCall(op, k) == \E i \in 1..Len(calls) : calls[i].op = op /\ calls[i].key = k

Searches ==
    LET IsSearch(c) == c.op = "search_issues"
    IN  SelectSeq(calls, IsSearch)

\* The name that drives the resolution (the board name if given, else the
\* project name) is known to the service.
NameResolves ==
    IF Truthy(BOARD_NAME)
    THEN \E i \in 1..Len(Boards) : Boards[i].name = BOARD_NAME
    ELSE /\ Truthy(PROJECT_NAME)
         /\ \E i \in 1..Len(Projects) : Lower(Projects[i].name) = Lower(PROJECT_NAME)

\* The run went through the fetch and the mutators to the end of the script.
Completed == pc = "exit" /\ exit_code = 0 /\ issues # << >>

\* C1: in a run with --dry-run, whatever mutators are requested and whatever
\* board or project is named, no issue field update and no transition
\* execution is ever called, from the start of the run to its exit.
C1_DryRunNeverMutates ==
    args.dry_run => \A i \in 1..Len(calls) : calls[i].op \notin Mutating

\* A dry run that named a board, asked for all three mutators and reached its
\* exit, against a service holding an issue that lacks the label.
C1_Witness ==
    /\ args.dry_run
    /\ pc = "exit"
    /\ exit_code = 0
    /\ Truthy(BOARD_NAME) /\ Truthy(LABEL_TO_ADD) /\ Truthy(TARGET_STATUS) /\ args.set_due_date
    /\ \E k \in DOMAIN remote : ~Contains(remote[k].labels, LABEL_TO_ADD)

\* The offset the claim gives a priority name, 0 for none.
Offset(priority) ==
    IF priority = None THEN 0
    ELSE CASE Lower(priority) = s_critical -> 7
           [] Lower(priority) = s_high -> 15
           [] Lower(priority) = s_medium -> 30
           [] Lower(priority) = s_low -> 90
           [] OTHER -> 0

\* An issue that the status mutator would move: away from the target status,
\* with a transition named like the target.
WouldMove(k) ==
    /\ Lower(remote[k].status) # Lower(TARGET_STATUS)
    /\ \E n \in 1..Len(remote[k].transitions) :
          Lower(remote[k].transitions[n].name) = Lower(TARGET_STATUS)

\* C2: a run with --dry-run whose board or project name resolves has, by its
\* exit, searched the issues as a real run does (after the name resolution and
\* the base-query lookup), and has reported the would-be mutation of every
\* issue that a requested mutator would change.
C2_DryRunReadsAndReports ==
    (args.dry_run /\ pc = "exit" /\ NameResolves) =>
        /\ Searches # << >>
        /\ Truthy(LABEL_TO_ADD) =>
              \A k \in DOMAIN remote :
                  ~Contains(remote[k].labels, LABEL_TO_ADD) => HasMsg("Would update with label", k)
        /\ Truthy(TARGET_STATUS) =>
              \A k \in DOMAIN remote : WouldMove(k) => HasMsg("Would move", k)
        /\ args.set_due_date =>
              \A k \in DOMAIN remote :
                  Offset(remote[k].priority) > 0 => HasMsg("Setting due date", k)

\* C3: an issue whose labels an earlier run updated, and nobody changed since,
\* gets no label update call when add_label_to_issues runs on it again with the
\* same label; the run reports that it already has the label.
C3_LabelIdempotent ==
    \A k \in fresh :
        /\ ~HasUpdate(calls, k, "labels")
        /\ ~HasMsg("Updating with label", k)
        /\ pc = "exit" => HasMsg("already has label", k)

\* A second run has finished over an issue that the first run labelled.
C3_Witness ==
    /\ run = 2
    /\ pc = "exit"
    /\ \E k \in fresh : HasMsg("already has label", k) /\ Len(remote[k].labels) > 1

\* C4: for every fetched issue whose status name equals the target status,
\* letter case ignored, move_issues_to_status neither lists the issue's
\* transitions nor executes one.
C4_AtTargetNoTransitionCalls ==
    Truthy(TARGET_STATUS) =>
        \A i \in 1..Len(issues) :
            Lower(issues[i].status) = Lower(TARGET_STATUS) =>
                /\ ~HasCall("transitions", issues[i].key)
                /\ ~HasCall("transition_issue", issues[i].key)

\* A real run has finished moving issues, one of which was at the target
\* status under a name that differs from the target in letter case.
C4_Witness ==
    /\ Completed
    /\ Truthy(TARGET_STATUS)
    /\ \E i \in 1..Len(issues) :
          /\ issues[i].status # TARGET_STATUS
          /\ Lower(issues[i].status) = Lower(TARGET_STATUS)
          /\ HasMsg("already in status", issues[i].key)

\* The fetch has ended.
Fetched == pc = "exit" /\ Searches # << >>

C5_Pages ==
    /\ \A i \in 1..Len(Searches) :
          /\ Searches[i].value = << (i - 1) * max_results >>
          /\ i < Len(Searches) => Searches[i].n = max_results
    /\ Fetched => Searches[Len(Searches)].n < max_results
    /\ Len(issues) <= Len(remote)
    /\ \A k \in 1..Len(issues) : issues[k] = Snapshot(k)
    /\ Fetched => Len(issues) = Len(remote)

\* C5: over a result set that the service serves 100 at a time, get_all_issues
\* ends; it asks for the pages at 0, 100, 200, ... and for no page after the
\* first one that holds fewer than 100 entries (an empty one included); what
\* it returns is the pages in the order received, which is the whole result
\* set in the service's order.
C5_FetchComplete ==
    /\ []C5_Pages
    /\ (pc = "get_all_issues") ~> (pc = "exit")

\* A result set of exactly two full pages: the third page asked for is empty.
C5_Witness ==
    /\ Fetched
    /\ Len(issues) = 2 * max_results
    /\ Len(Searches) = 3

CredentialsError ==
    HasMsg("Error: Credentials file not found.", 0) \/ HasMsg("Failed to load credentials", 0)

\* One of the fatal conditions holds of this run.
Fatal ==
    \/ CredentialsError
    \/ HasMsg("Jira authentication failed", 0)
    \/ pc = "exit" /\ (Truthy(BOARD_NAME) \/ Truthy(PROJECT_NAME)) /\ ~NameResolves
    \/ pc = "exit" /\ ~args.dry_run /\ ~Truthy(BOARD_NAME) /\ ~Truthy(PROJECT_NAME)
    \/ pc = "exit" /\ Truthy(args.created_on) /\ ~StrptimeDMYOk(args.created_on)

\* C6: a run in which a fatal condition holds (credentials missing or
\* malformed, authentication refused, board or project not found, neither
\* given in a real run, created-on date malformed) exits with status 1 having
\* made no issue search and no mutating call, and after a credentials error no
\* remote call at all.
C6_FatalExitsOne ==
    /\ (pc = "exit" /\ Fatal) =>
          /\ exit_code = 1
          /\ Searches = << >>
          /\ \A i \in 1..Len(calls) : calls[i].op \notin Mutating
    /\ CredentialsError => calls = << >>

\* The filters in build_jql's parameter order, each with its clause.
FilterClauses ==
    << << args.filters.status, s_status_eq \o args.filters.status \o s_quote >>,
       << args.filters.assignee, s_assignee_eq \o args.filters.assignee \o s_quote >>,
       << args.filters.reporter, s_reporter_eq \o args.filters.reporter \o s_quote >>,
       << args.filters.issue_type, s_issuetype_eq \o args.filters.issue_type \o s_quote >>,
       << args.filters.priority, s_priority_eq \o args.filters.priority \o s_quote >>,
       << args.filters.labels,
          IF Truthy(args.filters.labels) THEN LabelsClause(args.filters.labels) ELSE << >> >>,
       << args.created_on,
          IF Truthy(args.created_on) THEN CreatedClause(args.created_on) ELSE << >> >> >>

\* " AND " and the clause, for each given filter from the i-th on.
RECURSIVE AndClauses(_)
AndClauses(i) ==
    IF i > Len(FilterClauses) THEN << >>
    ELSE (IF Truthy(FilterClauses[i][1]) THEN s_and \o FilterClauses[i][2] ELSE << >>)
         \o AndClauses(i + 1)

\* C7: what build_jql returns is the base query alone when no filter is given,
\* and otherwise the base query followed by " AND " and the clause of each
\* given filter, in the order status, assignee, reporter, issue type,
\* priority, labels, created-on, with " AND " between them; the base
\* 'project = ABC ORDER BY Rank ASC' with status 'In Progress' gives
\* 'project = ABC ORDER BY Rank ASC AND status = "In Progress"'.
C7_BuildJqlOrder ==
    pc = "get_all_issues" =>
        /\ final_jql = base_jql \o AndClauses(1)
        /\ (\A i \in 1..Len(FilterClauses) : ~Truthy(FilterClauses[i][1])) => final_jql = base_jql
        /\ ( /\ base_jql = v_base_abc
             /\ args.filters.status = v_in_progress
             /\ \A i \in 2..Len(FilterClauses) : ~Truthy(FilterClauses[i][1]) )
           => final_jql = v_example_jql

\* The query was built from all seven filters.
C7_Witness ==
    /\ pc = "get_all_issues"
    /\ \A i \in 1..Len(FilterClauses) : Truthy(FilterClauses[i][1])

\* Calendar day a is later than calendar day b.
Later(a, b) ==
    \/ a.y > b.y
    \/ a.y = b.y /\ a.m > b.m
    \/ a.y = b.y /\ a.m = b.m /\ a.d > b.d

\* The calendar days after day a up to and including day b.
DaysFromTo(a, b) ==
    { dt \in [y : a.y..b.y, m : 1..12, d : 1..31] :
        dt.d <= DaysInMonth(dt.y, dt.m) /\ Later(dt, a) /\ ~Later(dt, b) }

\* The text is a date in the service's format, n days after the day given.
IsDayPlus(text, day, n) ==
    /\ StrptimeYMDOk(text)
    /\ Len(text) = 10
    /\ Cardinality(DaysFromTo(day, StrptimeYMD(text))) = n

DueUpdates(k) ==
    {i \in 1..Len(calls) : calls[i].op = "update" /\ calls[i].key = k /\ calls[i].field = "duedate"}

\* C8: for every fetched issue, set_due_dates_based_on_severity makes exactly
\* one due-date update, with the creation day plus 7, 15, 30 or 90 days, when
\* the priority name is critical, high, medium or low in any letter case, and
\* no update call for any other priority name or for no priority.
C8_DueDateByPriority ==
    \A j \in 1..Len(issues) :
        LET k == issues[j].key
            days == Offset(issues[j].priority)
            day == StrptimeYMD(SubSeq(issues[j].created, 1, 10))
        IN  /\ \A i \in DueUpdates(k) :
                  days > 0 /\ IsDayPlus(calls[i].value, day, days)
            /\ Cardinality(DueUpdates(k)) <= 1
            /\ days = 0 => ~HasCall("update", k)
            /\ (Completed /\ args.set_due_date /\ days > 0) => Cardinality(DueUpdates(k)) = 1

\* The mutator has run over an issue of priority "Critical" created on
\* 2024-01-01, now due on 2024-01-08, and over one whose priority has no offset.
C8_Witness ==
    /\ Completed
    /\ args.set_due_date
    /\ \E j \in 1..Len(issues) :
          /\ issues[j].priority = v_critical_cap
          /\ issues[j].created = v_created_new_year
          /\ \E i \in DueUpdates(issues[j].key) : calls[i].value = StrftimeYMD(StrptimeDMY(v_due_example))
    /\ \E j \in 1..Len(issues) : Offset(issues[j].priority) = 0

\* The issue at position i is away from the target status and the service
\* offers it no transition named like the target.
TransitionMiss(i) ==
    /\ Lower(issues[i].status) # Lower(TARGET_STATUS)
    /\ \A n \in 1..Len(remote[issues[i].key].transitions) :
          Lower(remote[issues[i].key].transitions[n].name) # Lower(TARGET_STATUS)

\* move_issues_to_status has dealt with the issue of key k, one way or another.
MoveHandled(k) ==
    \/ HasMsg("already in status", k)
    \/ HasMsg("No valid transition found", k)
    \/ HasMsg("Moving", k)

\* C9: an issue away from the target status with no transition named like the
\* target gets no transition executed; the run goes on: every later issue is
\* dealt with, a requested due-date mutator still runs, and the script
\* completes with status 0.
C9_TransitionMissSkipsIssue ==
    Truthy(TARGET_STATUS) =>
        \A i \in 1..Len(issues) :
            TransitionMiss(i) =>
                /\ ~HasCall("transition_issue", issues[i].key)
                /\ pc \in {"set_due_dates_based_on_severity", "exit"} =>
                      /\ HasMsg("No valid transition found", issues[i].key)
                      /\ \A j \in (i + 1)..Len(issues) : MoveHandled(issues[j].key)
                      /\ args.set_due_date => HasMsg("Setting due dates based on severity...", 0)
                /\ pc = "exit" => exit_code = 0 /\ HasMsg("Script completed.", 0)

\* A run has finished in which the first issue had no matching transition and
\* the second was moved, with the due dates set afterwards.
C9_Witness ==
    /\ Completed
    /\ Truthy(TARGET_STATUS)
    /\ args.set_due_date
    /\ Len(issues) = 2
    /\ TransitionMiss(1)
    /\ HasCall("transition_issue", issues[2].key)

LabelUpdates(k) ==
    {i \in 1..Len(calls) : calls[i].op = "update" /\ calls[i].key = k /\ calls[i].field = "labels"}

\* C10: every label update pushes the labels read at fetch time plus the new
\* label, and the service's label set becomes exactly what was pushed (until
\* somebody else edits it); so a label that another actor adds between the
\* fetch and the update is gone after the update (C10_Witness).
C10_UpdateReplacesLabels ==
    \A j \in 1..Len(issues) :
        LET k == issues[j].key
        IN  \A i \in LabelUpdates(k) :
                /\ calls[i].value = issues[j].labels \o << LABEL_TO_ADD >>
                /\ k \in updated => remote[k].labels = calls[i].value

\* The external actor added a label to an issue after the script fetched it;
\* the script then updated the issue's labels, and the actor's label is gone.
C10_Witness ==
    \E k \in pending :
        /\ LabelUpdates(k) # {}
        /\ ~Contains(remote[k].labels, v_urgent)
        /\ Contains(remote[k].labels, LABEL_TO_ADD)

====
